---- MODULE Spec2Model ----
(***************************************************************************)
(* Designation allocation of archiveDB: the registration form handler      *)
(* create_document_record (app/main.py), the JSON API of app/docs.py and   *)
(* the resolvers and allocators of app/database.py, over the tables of     *)
(* app/models.py.                                                          *)
(*                                                                         *)
(* Strings are sequences of one-character tokens.  The tokens "0".."9" are *)
(* the ASCII digits and "FW_1" is the fullwidth digit one U+FF11, a        *)
(* decimal digit for \d of a str pattern and for int(); "CYR_A", "CYR_B",  *)
(* "CYR_V", "CYR_G" stand for the Cyrillic capitals U+0410..U+0413 and     *)
(* "CYR_IO" for the Cyrillic capital U+0401; "a", "-", ".", " " and "N"    *)
(* are themselves.                                                         *)
(* A nullable column holds a set: {} is NULL, {v} is the value v.          *)
(*                                                                         *)
(* The store is PostgreSQL at its default isolation level (READ COMMITTED):*)
(* a statement of a session reads the committed tables and the session's   *)
(* own flushed rows; rows flushed by another session are invisible until   *)
(* that session commits.  Serial ids are drawn from sequences, which do    *)
(* not roll back.                                                          *)
(***************************************************************************)
EXTENDS Integers, Sequences, FiniteSets, TLC

\* ------------------------------------------------------------------ bounds
\* Largest id the documents sequence hands out in a run.
MaxDocId == 2
\* Largest registration number a drawn partition holds (SpecAlloc).
MaxPrn == 4

\* The request slots (concurrent sessions of the form handler).
Req == {"r1", "r2"}

\* ------------------------------------------------------------- characters
Digits == {"0", "1", "2", "3", "4", "5", "6", "7", "8", "9", "FW_1"}
CyrUpper == {"CYR_A", "CYR_B", "CYR_V", "CYR_G"}

DigitVal(c) ==
    CASE c = "0" -> 0 [] c = "1" -> 1 [] c = "2" -> 2 [] c = "3" -> 3
      [] c = "4" -> 4 [] c = "5" -> 5 [] c = "6" -> 6 [] c = "7" -> 7
      [] c = "8" -> 8 [] c = "9" -> 9 [] c = "FW_1" -> 1

DigitChar(d) ==
    CASE d = 0 -> "0" [] d = 1 -> "1" [] d = 2 -> "2" [] d = 3 -> "3"
      [] d = 4 -> "4" [] d = 5 -> "5" [] d = 6 -> "6" [] d = 7 -> "7"
      [] d = 8 -> "8" [] d = 9 -> "9"

\* re.match(r'^\d{n}$', s) for a string s of length n.
AllDigits(s) == \A i \in 1..Len(s) : s[i] \in Digits

\* re.match(r'^[А-Я]{4}$', s) for a string s of length 4.
AllCyrUpper(s) == \A i \in 1..Len(s) : s[i] \in CyrUpper

\* The value of a non-empty string of digits.
RECURSIVE DigitsToInt(_)
DigitsToInt(s) ==
    IF Len(s) = 0 THEN 0
    ELSE 10 * DigitsToInt(SubSeq(s, 1, Len(s) - 1)) + DigitVal(s[Len(s)])

\* Python int(s) on the strings the form can carry here: an optional sign
\* and decimal digits.  ok = FALSE is ValueError.
PyInt(s) ==
    IF Len(s) >= 1 /\ AllDigits(s)
    THEN [ok |-> TRUE, val |-> DigitsToInt(s)]
    ELSE IF Len(s) >= 2 /\ s[1] = "-" /\ AllDigits(Tail(s))
    THEN [ok |-> TRUE, val |-> 0 - DigitsToInt(Tail(s))]
    ELSE [ok |-> FALSE, val |-> 0]

\* The decimal digits of n >= 0, no padding.
RECURSIVE IntToDigits(_)
IntToDigits(n) ==
    IF n < 10 THEN <<DigitChar(n)>>
    ELSE IntToDigits(n \div 10) \o <<DigitChar(n % 10)>>

RECURSIVE ZeroPad(_, _)
ZeroPad(s, width) == IF Len(s) >= width THEN s ELSE ZeroPad(<<"0">> \o s, width)

\* Python f"{n:03d}": zero-padded to a total width of 3, the sign included.
Format03d(n) ==
    IF n >= 0 THEN ZeroPad(IntToDigits(n), 3)
    ELSE <<"-">> \o ZeroPad(IntToDigits(0 - n), 2)

\* f"{org_code}.{class_code}.{number:03d}"
Designation(org_code, class_code, number) ==
    org_code \o <<".">> \o class_code \o <<".">> \o Format03d(number)

\* --------------------------------------------------------------- inputs
ORG_LETTERS == <<"CYR_A", "CYR_B", "CYR_V", "CYR_G">>
ORG_DIGITS == <<"1", "2", "3", "4", "5", "6", "7", "8">>
ORG_SHORT == <<"CYR_A", "CYR_B", "CYR_V">>
CLASS_KD == <<"1", "2", "3", "4", "5", "6">>
CLASS_TD == <<"1", "2", "3", "4", "5", "6", "7">>

\* What the form's org_code, class_code and reg_number fields are drawn from.
OrgCodes == {ORG_LETTERS, ORG_DIGITS, ORG_SHORT}
ClassCodes == {CLASS_KD, CLASS_TD}
RegNumbers == {<<>>, <<"0">>, <<"1">>, <<"3">>, <<"a">>}
DocTypes == {"DD", "TD", "XX"}
Methods == {"impersonal", "other"}

\* ------------------------------------------------------------ resolvers
\* result.scalars().first() of a select with no ORDER BY over a table whose
\* rows are only ever inserted: the heap order is the insertion order, which
\* is the order of the serial ids.
First(rows) == CHOOSE o \in rows : \A p \in rows : o.id <= p.id

OrgRaise == [status |-> 400, id |-> 0, created |-> {}]

\* The names a new row gets when the caller supplies none:
\* f"Организация с ОКПО {org_code}" and f"Организация с кодом {org_code}".
OkpoPlaceholder(org_code) == <<"name_okpo">> \o org_code
CodePlaceholder(org_code) == <<"name_code">> \o org_code
OrgReturn(i, rows) == [status |-> 200, id |-> i, created |-> rows]

\* The OKPO branch with the new row's value stored in num_code, the column
\* the branch does not look up (a mutant).
OrgOkpoBranchWrongColumn(orgs, next_id, org_code) ==
    LET found == {o \in orgs : o.num_code_okpo = {DigitsToInt(org_code)}}
    IN IF found # {}
       THEN IF ~First(found).code_okpo THEN OrgRaise
            ELSE OrgReturn(First(found).id, {})
       ELSE OrgReturn(next_id,
                {[id |-> next_id, code |-> {}, code_okpo |-> TRUE,
                  num_code |-> {DigitsToInt(org_code)}, num_code_okpo |-> {},
                  name |-> OkpoPlaceholder(org_code)]})

\* The OKPO branch, once len(org_code) = 8 and the digits are checked.
OrgOkpoBranch(orgs, next_id, org_code) ==
    LET found == {o \in orgs : o.num_code_okpo = {DigitsToInt(org_code)}}
    IN IF found # {}
       THEN IF ~First(found).code_okpo THEN OrgRaise
            ELSE OrgReturn(First(found).id, {})
       ELSE OrgReturn(next_id,
                {[id |-> next_id, code |-> {}, code_okpo |-> TRUE,
                  num_code |-> {}, num_code_okpo |-> {DigitsToInt(org_code)},
                  name |-> OkpoPlaceholder(org_code)]})

\* The standard branch's new row with code set whatever the length of
\* org_code (a mutant).
OrgStandardCreateCodeAlways(orgs, next_id, org_code) ==
    OrgReturn(next_id,
        {[id |-> next_id,
          code |-> {org_code},
          code_okpo |-> FALSE,
          num_code |-> IF Len(org_code) = 8 THEN {DigitsToInt(org_code)} ELSE {},
          num_code_okpo |-> {},
          name |-> CodePlaceholder(org_code)]})

\* The row the standard branch creates when its lookup finds nothing.
OrgStandardCreate(orgs, next_id, org_code) ==
    OrgReturn(next_id,
        {[id |-> next_id,
          code |-> IF Len(org_code) = 4 THEN {org_code} ELSE {},
          code_okpo |-> FALSE,
          num_code |-> IF Len(org_code) = 8 THEN {DigitsToInt(org_code)} ELSE {},
          num_code_okpo |-> {},
          name |-> CodePlaceholder(org_code)]})

\* The standard branch, once the length and the characters are checked.
OrgStandardBranch(orgs, next_id, org_code) ==
    LET found == IF Len(org_code) = 4
                 THEN {o \in orgs : o.code = {org_code}}
                 ELSE {o \in orgs : o.num_code = {DigitsToInt(org_code)}}
    IN IF found # {}
       THEN IF Len(org_code) = 8 /\ First(found).code_okpo THEN OrgRaise
            ELSE OrgReturn(First(found).id, {})
       ELSE OrgStandardCreate(orgs, next_id, org_code)

\* get_or_create_org_id(session, org_code, is_okpo), org_name = None as at
\* every call in the sources.  orgs is what the session sees, next_id the
\* value the organizations id sequence hands out next.  status 400 is the
\* HTTPException; created is the row the call flushed, if any.
get_or_create_org_id(orgs, next_id, org_code, is_okpo) ==
    IF Len(org_code) = 0 THEN OrgRaise
    ELSE IF is_okpo
    THEN IF Len(org_code) # 8 THEN OrgRaise
         ELSE IF ~AllDigits(org_code) THEN OrgRaise
         ELSE OrgOkpoBranch(orgs, next_id, org_code)
    ELSE IF Len(org_code) # 4 /\ Len(org_code) # 8 THEN OrgRaise
         ELSE IF Len(org_code) = 4 /\ ~AllCyrUpper(org_code) THEN OrgRaise
         ELSE IF Len(org_code) = 8 /\ ~AllDigits(org_code) THEN OrgRaise
         ELSE OrgStandardBranch(orgs, next_id, org_code)

\* str.strip() on a name whose only whitespace is the token " ".
RECURSIVE Strip(_)
Strip(s) ==
    IF Len(s) = 0 THEN s
    ELSE IF s[1] = " " THEN Strip(Tail(s))
    ELSE IF s[Len(s)] = " " THEN Strip(SubSeq(s, 1, Len(s) - 1))
    ELSE s

\* get_or_create_org_id with the existing row renamed to the supplied
\* org_name when the code is found (a mutant).
get_or_create_org_id_renaming(orgs, next_id, org_code, is_okpo, org_name) ==
    LET res == get_or_create_org_id(orgs, next_id, org_code, is_okpo)
        found == {o \in orgs : o.id = res.id}
    IN IF Len(org_code) = 0 THEN OrgRaise
       ELSE IF Len(Strip(org_name)) > 255 THEN OrgRaise
       ELSE IF Len(Strip(org_name)) = 0 \/ res.status = 400 THEN res
       ELSE IF found # {}
       THEN [res EXCEPT !.created = {[o EXCEPT !.name = Strip(org_name)] : o \in found}]
       ELSE [res EXCEPT !.created = {[o EXCEPT !.name = Strip(org_name)] : o \in @}]

\* get_or_create_org_id(session, org_code, is_okpo, org_name) with a
\* supplied org_name (<<>> is None or ""): the name is stripped, a blank one
\* is dropped, one longer than 255 raises, and a new row is named by it.
get_or_create_org_id_named(orgs, next_id, org_code, is_okpo, org_name) ==
    LET res == get_or_create_org_id(orgs, next_id, org_code, is_okpo)
    IN IF Len(org_code) = 0 THEN OrgRaise
       ELSE IF Len(Strip(org_name)) > 255 THEN OrgRaise
       ELSE IF Len(Strip(org_name)) = 0 \/ res.status = 400 THEN res
       ELSE [res EXCEPT !.created = {[o EXCEPT !.name = Strip(org_name)] : o \in @}]

\* The validation of get_or_create_class_id: TRUE when it raises.
ClassCodeInvalid(class_code, is_kd) ==
    LET expected_length == IF is_kd THEN 6 ELSE 7
    IN \/ Len(class_code) # expected_length
       \/ ~AllDigits(class_code)

\* The lookup with the comparison of the code inverted (a mutant).
ClassLookupOtherCode(classes, class_code) == {c \in classes : c.code # class_code}

\* The lookup of get_or_create_class_id in the rows the session sees.
ClassLookup(classes, class_code) == {c \in classes : c.code = class_code}

\* ----------------------------------------------------------- allocators
\* The numbers of the partition (org_id, class_code_id) in a table of
\* DesignDocument rows (number is prni, class_code_id is kd_class_code_id)
\* or of TechDocument rows (number is prn, class_code_id is
\* td_class_code_id).
Used(rows, org_id, class_code_id) ==
    {d.number : d \in {e \in rows : e.org_id = org_id /\ e.class_code_id = class_code_id}}

\* next = 1; while next in used: next += 1
RECURSIVE ScanFree(_, _)
ScanFree(used, next) == IF next \in used THEN ScanFree(used, next + 1) ELSE next

\* get_next_prni with the max-plus-one policy in place of the scan (a mutant).
MaxPlusOnePrni(rows, org_id, kd_class_code_id) ==
    LET used == Used(rows, org_id, kd_class_code_id)
    IN IF used = {} THEN 1
       ELSE (CHOOSE m \in used : \A n \in used : n <= m) + 1

get_next_prni(rows, org_id, kd_class_code_id) ==
    ScanFree(Used(rows, org_id, kd_class_code_id), 1)

\* get_next_prn with the max-plus-one policy in place of the scan (a mutant).
MaxPlusOnePrn(rows, org_id, td_class_code_id) ==
    LET used == Used(rows, org_id, td_class_code_id)
    IN IF used = {} THEN 1
       ELSE (CHOOSE m \in used : \A n \in used : n <= m) + 1

get_next_prn(rows, org_id, td_class_code_id) ==
    ScanFree(Used(rows, org_id, td_class_code_id), 1)

\* select(func.max(number)) over the partition, then (max or 0) + 1: what
\* create_document_record computes when the form carries no number.
MaxPlusOne(rows, org_id, class_code_id) ==
    LET used == Used(rows, org_id, class_code_id)
        max == IF used = {} THEN 0
               ELSE CHOOSE m \in used : \A n \in used : n <= m
    IN max + 1

\* ---------------------------------------------------------------- state
VARIABLES
    organizations,      \* committed rows of Organization
    class_codes_kd,     \* committed rows of ClassCodeKD
    class_codes_td,     \* committed rows of ClassCodeTD
    documents,          \* committed rows of BaseDocument
    design_documents,   \* committed rows of DesignDocument
    tech_documents,     \* committed rows of TechDocument
    id_seq,             \* the next value of each table's id sequence
    req,                \* the sessions of create_document_record
    query,              \* the last allocator call and its result
    sess                \* the sessions that call the organization resolver

vars == <<organizations, class_codes_kd, class_codes_td, documents,
          design_documents, tech_documents, id_seq, req, query, sess>>

tables == <<organizations, class_codes_kd, class_codes_td, documents,
            design_documents, tech_documents>>

\* A session of create_document_record.  pc is the statement it is about to
\* run; status is the HTTP status of its response (0 while it runs; 303 the
\* redirect after the commit, 400 an HTTPException, 500 an exception nothing
\* catches).  new_org and new_class are the rows it flushed and has not
\* committed.  conc records history: the base ids of the sessions that ran
\* while it ran.
IdleReq ==
    [pc |-> "idle", doc_type |-> "", designation_method |-> "",
     org_code |-> <<>>, class_code |-> <<>>, reg_number |-> <<>>,
     base_id |-> 0, org_id |-> 0, class_code_id |-> 0, number |-> 0,
     designation |-> <<>>, new_org |-> {}, new_class |-> {}, status |-> 0,
     conc |-> {}]

NoQuery == [op |-> "none", org_id |-> 0, class_code_id |-> 0, result |-> 0]

\* A session that calls the organization resolver: the rows it flushed and
\* has not committed, and its last two calls, in order, that no commit of
\* another session and no rollback of its own came between.
IdleSess == [new_org |-> {}, calls |-> <<>>]

Init ==
    /\ organizations = {}
    /\ class_codes_kd = {}
    /\ class_codes_td = {}
    /\ documents = {}
    /\ design_documents = {}
    /\ tech_documents = {}
    /\ id_seq = [doc |-> 1, org |-> 1, kd |-> 1, td |-> 1]
    /\ req = [r \in Req |-> IdleReq]
    /\ query = NoQuery
    /\ sess = [s \in Req |-> IdleSess]

InFlight(r) == req[r].pc \notin {"idle", "done"}

\* The slot a new session takes: the sessions are interchangeable, so the
\* second slot is taken only while the first one is running.
Free(r) == ~InFlight(r) /\ (r = "r2" => InFlight("r1"))

\* The table of the request's document kind, and its class-code table.
KindTable(doc_type) == IF doc_type = "DD" THEN design_documents ELSE tech_documents
ClassTable(doc_type) == IF doc_type = "DD" THEN class_codes_kd ELSE class_codes_td

\* The request ends with an exception: the session closes without a commit
\* and everything it flushed is rolled back.
Raise(r, status) ==
    [req EXCEPT ![r].pc = "done", ![r].status = status,
                ![r].new_org = {}, ![r].new_class = {}]

\* ------------------------------------------- create_document_record
\* doc_type is neither DD nor TD: HTTPException before anything is added.
BeginReject(r, doc_type) ==
    /\ Free(r)
    /\ doc_type \notin {"DD", "TD"}
    /\ req' = [req EXCEPT ![r] = [IdleReq EXCEPT !.pc = "done", !.doc_type = doc_type,
                                                 !.status = 400]]
    /\ UNCHANGED <<tables, id_seq, query, sess>>

\* base_doc is added and flushed.  The form's fields are constants of the
\* request; each is drawn at the statement that first uses it.
Begin(r, doc_type, designation_method) ==
    /\ Free(r)
    /\ doc_type \in {"DD", "TD"}
    /\ id_seq.doc <= MaxDocId
    /\ LET running == {q \in Req : q # r /\ InFlight(q)}
           mine == [IdleReq EXCEPT
                      !.pc = IF designation_method = "impersonal" THEN "org" ELSE "commit",
                      !.doc_type = doc_type,
                      !.designation_method = designation_method,
                      !.base_id = id_seq.doc,
                      !.conc = {req[q].base_id : q \in running}]
       IN req' = [q \in Req |->
                    IF q = r THEN mine
                    ELSE IF q \in running
                    THEN [req[q] EXCEPT !.conc = @ \cup {id_seq.doc}]
                    ELSE req[q]]
    /\ id_seq' = [id_seq EXCEPT !.doc = @ + 1]
    /\ UNCHANGED <<tables, query, sess>>

\* not all([org_code, class_code]), then get_or_create_org_id(session, org_code).
ResolveOrg(r, org_code, class_code) ==
    /\ req[r].pc = "org"
    /\ LET res == get_or_create_org_id(organizations \cup req[r].new_org, id_seq.org,
                                       org_code, FALSE)
           read == [req EXCEPT ![r].org_code = org_code, ![r].class_code = class_code]
       IN IF org_code = <<>> \/ class_code = <<>> \/ res.status = 400
          THEN /\ req' = [read EXCEPT ![r].pc = "done", ![r].status = 400]
               /\ UNCHANGED id_seq
          ELSE /\ req' = [read EXCEPT ![r].pc = "class", ![r].org_id = res.id,
                                      ![r].new_org = res.created]
               /\ id_seq' = [id_seq EXCEPT !.org = @ + Cardinality(res.created)]
    /\ UNCHANGED <<tables, query, sess>>

\* ResolveClass with the Organization row the request flushed committed
\* before the class code is validated (a mutant).
ResolveClassAfterOrgCommit(r) ==
    /\ req[r].pc = "class"
    /\ LET is_kd == req[r].doc_type = "DD"
           found == ClassLookup(ClassTable(req[r].doc_type) \cup req[r].new_class,
                                req[r].class_code)
       IN IF ClassCodeInvalid(req[r].class_code, is_kd)
          THEN req' = Raise(r, 400)
          ELSE IF found # {}
          THEN req' = [req EXCEPT ![r].pc = "number", ![r].class_code_id = First(found).id]
          ELSE req' = [req EXCEPT ![r].pc = "class_flush"]
    /\ organizations' = organizations \cup req[r].new_org
    /\ UNCHANGED <<class_codes_kd, class_codes_td, documents, design_documents,
                   tech_documents, id_seq, query, sess>>

\* get_or_create_class_id up to its select: the validation and the lookup.
ResolveClass(r) ==
    /\ req[r].pc = "class"
    /\ LET is_kd == req[r].doc_type = "DD"
           found == ClassLookup(ClassTable(req[r].doc_type) \cup req[r].new_class,
                                req[r].class_code)
       IN IF ClassCodeInvalid(req[r].class_code, is_kd)
          THEN req' = Raise(r, 400)
          ELSE IF found # {}
          THEN req' = [req EXCEPT ![r].pc = "number", ![r].class_code_id = First(found).id]
          ELSE req' = [req EXCEPT ![r].pc = "class_flush"]
    /\ UNCHANGED <<tables, id_seq, query, sess>>

\* get_or_create_class_id's session.add(new_class) and flush.  code is
\* unique: the insert waits while another session holds an uncommitted row
\* of the same code, and fails (IntegrityError, which nothing catches) when
\* a committed row has it.
FlushClass(r) ==
    /\ req[r].pc = "class_flush"
    /\ \A q \in Req \ {r} :
          ~(InFlight(q) /\ req[q].doc_type = req[r].doc_type
            /\ ClassLookup(req[q].new_class, req[r].class_code) # {})
    /\ LET kind == IF req[r].doc_type = "DD" THEN "kd" ELSE "td"
           new_class == [id |-> id_seq[kind], code |-> req[r].class_code]
       IN /\ id_seq' = [id_seq EXCEPT ![kind] = @ + 1]
          /\ IF ClassLookup(ClassTable(req[r].doc_type), req[r].class_code) # {}
             THEN req' = Raise(r, 500)
             ELSE req' = [req EXCEPT ![r].pc = "number",
                                     ![r].class_code_id = new_class.id,
                                     ![r].new_class = {new_class}]
    /\ UNCHANGED <<tables, query, sess>>

\* The number (int(reg_number), or max + 1 over the partition) and the
\* designation; specific_doc is added to the session.
AllocNumber(r, reg_number) ==
    /\ req[r].pc = "number"
    /\ LET table == KindTable(req[r].doc_type)
           manual == reg_number # <<>>
           parsed == PyInt(reg_number)
           number == IF manual THEN parsed.val
                     ELSE MaxPlusOne(table, req[r].org_id, req[r].class_code_id)
           read == [req EXCEPT ![r].reg_number = reg_number]
       IN IF manual /\ ~parsed.ok
          THEN req' = [read EXCEPT ![r].pc = "done", ![r].status = 400,
                                   ![r].new_org = {}, ![r].new_class = {}]
          ELSE req' = [read EXCEPT
                         ![r].pc = "commit",
                         ![r].number = number,
                         ![r].designation =
                             Designation(req[r].org_code, req[r].class_code, number)]
    /\ UNCHANGED <<tables, id_seq, query, sess>>

\* session.commit(): specific_doc (when the branch added one) is flushed,
\* designation is unique in its table, then everything the session flushed
\* is committed.  Nothing catches the IntegrityError of a duplicate.
Commit(r) ==
    /\ req[r].pc = "commit"
    /\ LET base_doc == [id |-> req[r].base_id, type |-> req[r].doc_type, file_name |-> {}]
           specific_doc == [id |-> req[r].base_id, org_id |-> req[r].org_id,
                            class_code_id |-> req[r].class_code_id,
                            number |-> req[r].number,
                            designation |-> req[r].designation]
           table == KindTable(req[r].doc_type)
       IN IF req[r].designation_method # "impersonal"
          THEN /\ documents' = documents \cup {base_doc}
               /\ req' = [req EXCEPT ![r].pc = "done", ![r].status = 303]
               /\ UNCHANGED <<organizations, class_codes_kd, class_codes_td,
                              design_documents, tech_documents>>
          ELSE IF \E d \in table : d.designation = specific_doc.designation
          THEN /\ req' = Raise(r, 500)
               /\ UNCHANGED tables
          ELSE /\ organizations' = organizations \cup req[r].new_org
               /\ class_codes_kd' = IF req[r].doc_type = "DD"
                                    THEN class_codes_kd \cup req[r].new_class
                                    ELSE class_codes_kd
               /\ class_codes_td' = IF req[r].doc_type = "TD"
                                    THEN class_codes_td \cup req[r].new_class
                                    ELSE class_codes_td
               /\ documents' = documents \cup {base_doc}
               /\ design_documents' = IF req[r].doc_type = "DD"
                                      THEN design_documents \cup {specific_doc}
                                      ELSE design_documents
               /\ tech_documents' = IF req[r].doc_type = "TD"
                                    THEN tech_documents \cup {specific_doc}
                                    ELSE tech_documents
               /\ req' = [req EXCEPT ![r].pc = "done", ![r].status = 303,
                                     ![r].new_org = {}, ![r].new_class = {}]
    /\ UNCHANGED <<id_seq, query, sess>>

\* ------------------------------------------------------- app/main.py upload
\* handle_upload: file_name becomes f"{filename_base}_{doc.id}{extension}".
handle_upload(doc_id) ==
    /\ \E doc \in documents :
          /\ doc.id = doc_id
          /\ documents' = (documents \ {doc}) \cup
                            {[doc EXCEPT !.file_name = {<<"f", doc_id>>}]}
    /\ UNCHANGED <<organizations, class_codes_kd, class_codes_td,
                   design_documents, tech_documents, id_seq, req, query, sess>>

\* -------------------------------------------------------------- app/docs.py
\* What the API's callers send.
ApiOrgIds == {1}
ApiClassIds == {1}
ApiNumbers == {1}
ApiDesignations == {Designation(ORG_LETTERS, CLASS_KD, 1), <<"X">>}

\* RowAccepted without the two foreign keys (a mutant).
RowAcceptedNoForeignKeys(doc_type, row) ==
    \A d \in KindTable(doc_type) : d.id # row.id => d.designation # row.designation

\* The foreign keys of a DesignDocument / TechDocument row and the unique
\* designation, against the committed rows other than the row itself.
RowAccepted(doc_type, row) ==
    /\ \E o \in organizations : o.id = row.org_id
    /\ \E c \in ClassTable(doc_type) : c.id = row.class_code_id
    /\ \A d \in KindTable(doc_type) : d.id # row.id => d.designation # row.designation

\* create_design_document / create_tech_document.  base_doc is flushed with
\* file_name = "" (file_name is unique; an IntegrityError of that flush is
\* outside the try and answered 500); the commit's IntegrityError is caught,
\* rolled back and answered 400; otherwise both rows are committed (201).
ApiCreate(doc_type, org_id, class_code_id, number, designation) ==
    /\ id_seq.doc <= MaxDocId
    /\ id_seq' = [id_seq EXCEPT !.doc = @ + 1]
    /\ LET base_doc == [id |-> id_seq.doc, type |-> doc_type, file_name |-> {<<>>}]
           row == [id |-> id_seq.doc, org_id |-> org_id,
                   class_code_id |-> class_code_id, number |-> number,
                   designation |-> designation]
       IN IF \E d \in documents : d.file_name = base_doc.file_name
          THEN /\ UNCHANGED tables
          ELSE IF ~RowAccepted(doc_type, row)
          THEN /\ UNCHANGED tables
          ELSE /\ documents' = documents \cup {base_doc}
               /\ design_documents' = IF doc_type = "DD"
                                      THEN design_documents \cup {row}
                                      ELSE design_documents
               /\ tech_documents' = IF doc_type = "TD"
                                    THEN tech_documents \cup {row}
                                    ELSE tech_documents
               /\ UNCHANGED <<organizations, class_codes_kd, class_codes_td>>
    /\ UNCHANGED <<req, query, sess>>

create_design_document(org_id, kd_class_code_id, prni, designation) ==
    ApiCreate("DD", org_id, kd_class_code_id, prni, designation)

create_tech_document(org_id, td_class_code_id, prn, designation) ==
    ApiCreate("TD", org_id, td_class_code_id, prn, designation)

\* ApiUpdate with the updated row written to the DesignDocument table
\* whatever its kind (a mutant).
ApiUpdateOneTable(doc_type, doc_id, org_id, class_code_id, number, designation) ==
    /\ LET found == {d \in KindTable(doc_type) : d.id = doc_id}
           row == [id |-> doc_id, org_id |-> org_id,
                   class_code_id |-> class_code_id, number |-> number,
                   designation |-> designation]
       IN IF found = {}
          THEN /\ UNCHANGED tables
          ELSE IF ~RowAccepted(doc_type, row)
          THEN /\ UNCHANGED tables
          ELSE /\ design_documents' = (design_documents \ found) \cup {row}
               /\ tech_documents' = tech_documents \ found
               /\ UNCHANGED <<organizations, class_codes_kd, class_codes_td, documents>>
    /\ UNCHANGED <<id_seq, req, query, sess>>

\* update_design_document / update_tech_document: 404 when the row is
\* missing; the four fields are overwritten and committed; nothing catches
\* an IntegrityError (500, the row is left as it was).
ApiUpdate(doc_type, doc_id, org_id, class_code_id, number, designation) ==
    /\ LET found == {d \in KindTable(doc_type) : d.id = doc_id}
           row == [id |-> doc_id, org_id |-> org_id,
                   class_code_id |-> class_code_id, number |-> number,
                   designation |-> designation]
       IN IF found = {}
          THEN /\ UNCHANGED tables
          ELSE IF ~RowAccepted(doc_type, row)
          THEN /\ UNCHANGED tables
          ELSE /\ design_documents' = IF doc_type = "DD"
                                      THEN (design_documents \ found) \cup {row}
                                      ELSE design_documents
               /\ tech_documents' = IF doc_type = "TD"
                                    THEN (tech_documents \ found) \cup {row}
                                    ELSE tech_documents
               /\ UNCHANGED <<organizations, class_codes_kd, class_codes_td, documents>>
    /\ UNCHANGED <<id_seq, req, query, sess>>

update_design_document(doc_id, org_id, kd_class_code_id, prni, designation) ==
    ApiUpdate("DD", doc_id, org_id, kd_class_code_id, prni,
              designation)

update_tech_document(doc_id, org_id, td_class_code_id, prn, designation) ==
    ApiUpdate("TD", doc_id, org_id, td_class_code_id, prn,
              designation)

\* docs.py delete_document: session.delete(doc) is awaited; the cascade of
\* BaseDocument.design_document / tech_document deletes the kind's row too.
api_delete_document(doc_id) ==
    /\ IF \E d \in documents : d.id = doc_id
       THEN /\ documents' = {d \in documents : d.id # doc_id}
            /\ design_documents' = {d \in design_documents : d.id # doc_id}
            /\ tech_documents' = {d \in tech_documents : d.id # doc_id}
       ELSE /\ UNCHANGED <<documents, design_documents, tech_documents>>
    /\ UNCHANGED <<organizations, class_codes_kd, class_codes_td, id_seq, req, query, sess>>

\* ------------------------------------------------------------ specification
Next ==
    \/ \E r \in Req, t \in DocTypes : BeginReject(r, t)
    \/ \E r \in Req, t \in DocTypes, m \in Methods : Begin(r, t, m)
    \/ \E r \in Req, o \in OrgCodes, c \in ClassCodes : ResolveOrg(r, o, c)
    \/ \E r \in Req : ResolveClass(r)
    \/ \E r \in Req : FlushClass(r)
    \/ \E r \in Req, n \in RegNumbers : AllocNumber(r, n)
    \/ \E r \in Req : Commit(r)
    \/ \E i \in 1..MaxDocId : handle_upload(i)
    \/ \E o \in ApiOrgIds, c \in ApiClassIds, n \in ApiNumbers, d \in ApiDesignations :
          create_design_document(o, c, n, d)
    \/ \E o \in ApiOrgIds, c \in ApiClassIds, n \in ApiNumbers, d \in ApiDesignations :
          create_tech_document(o, c, n, d)
    \/ \E i \in 1..MaxDocId, o \in ApiOrgIds, c \in ApiClassIds, n \in ApiNumbers,
          d \in ApiDesignations : update_design_document(i, o, c, n, d)
    \/ \E i \in 1..MaxDocId, o \in ApiOrgIds, c \in ApiClassIds, n \in ApiNumbers,
          d \in ApiDesignations : update_tech_document(i, o, c, n, d)
    \/ \E i \in 1..MaxDocId : api_delete_document(i)

Spec == Init /\ [][Next]_vars

\* ------------------------------------------------- the allocators, called
\* A store with three partitions of manually numbered documents: the
\* DesignDocument partitions (1, 1) and (2, 1) and the TechDocument
\* partition (1, 1).
PartitionRows(org_id, org_code, class_code, numbers, first_id) ==
    {[id |-> first_id + n, org_id |-> org_id, class_code_id |-> 1, number |-> n,
      designation |-> Designation(org_code, class_code, n)] : n \in numbers}

InitAlloc ==
    \E a \in SUBSET (0..MaxPrn), b \in SUBSET (1..2), t \in SUBSET (1..MaxPrn) :
       /\ organizations =
             {[id |-> 1, code |-> {ORG_LETTERS}, code_okpo |-> FALSE,
               num_code |-> {}, num_code_okpo |-> {},
               name |-> CodePlaceholder(ORG_LETTERS)],
              [id |-> 2, code |-> {}, code_okpo |-> FALSE,
               num_code |-> {DigitsToInt(ORG_DIGITS)}, num_code_okpo |-> {},
               name |-> CodePlaceholder(ORG_DIGITS)]}
       /\ class_codes_kd = {[id |-> 1, code |-> CLASS_KD]}
       /\ class_codes_td = {[id |-> 1, code |-> CLASS_TD]}
       /\ design_documents =
             PartitionRows(1, ORG_LETTERS, CLASS_KD, a, 1)
             \cup PartitionRows(2, ORG_DIGITS, CLASS_KD, b, MaxPrn + 2)
       /\ tech_documents = PartitionRows(1, ORG_LETTERS, CLASS_TD, t, 2 * MaxPrn + 3)
       /\ documents =
             {[id |-> d.id, type |-> "DD", file_name |-> {}] : d \in design_documents}
             \cup {[id |-> d.id, type |-> "TD", file_name |-> {}] : d \in tech_documents}
       /\ id_seq = [doc |-> 3 * MaxPrn + 4, org |-> 3, kd |-> 2, td |-> 2]
       /\ req = [r \in Req |-> IdleReq]
       /\ query = NoQuery
       /\ sess = [s \in Req |-> IdleSess]

CallNextPrni(org_id, kd_class_code_id) ==
    /\ query' = [op |-> "get_next_prni", org_id |-> org_id,
                 class_code_id |-> kd_class_code_id,
                 result |-> get_next_prni(design_documents, org_id, kd_class_code_id)]
    /\ UNCHANGED <<tables, id_seq, req, sess>>

CallNextPrn(org_id, td_class_code_id) ==
    /\ query' = [op |-> "get_next_prn", org_id |-> org_id,
                 class_code_id |-> td_class_code_id,
                 result |-> get_next_prn(tech_documents, org_id, td_class_code_id)]
    /\ UNCHANGED <<tables, id_seq, req, sess>>

NextAlloc ==
    \/ \E o \in 1..2, c \in 1..2 : CallNextPrni(o, c)
    \/ \E o \in 1..2, c \in 1..2 : CallNextPrn(o, c)

SpecAlloc == InitAlloc /\ [][NextAlloc]_vars

\* ------------------------------------------ the organization resolver, called
\* Largest id the organizations sequence hands out in a run of SpecOrg.
MaxOrgId == 3

\* One call of get_or_create_org_id in session s.  An HTTPException ends the
\* request: the session closes without a commit.
CallOrg(s, org_code, is_okpo) ==
    /\ id_seq.org <= MaxOrgId
    /\ LET res == get_or_create_org_id(organizations \cup sess[s].new_org, id_seq.org,
                                       org_code, is_okpo)
           call == [org_code |-> org_code, is_okpo |-> is_okpo, id |-> res.id,
                    created |-> res.created # {}]
       IN IF res.status = 400
          THEN /\ sess' = [sess EXCEPT ![s] = IdleSess]
               /\ UNCHANGED id_seq
          ELSE /\ sess' = [sess EXCEPT
                             ![s].new_org = @ \cup res.created,
                             ![s].calls = IF Len(@) = 0 THEN <<call>>
                                          ELSE <<@[Len(@)], call>>]
               /\ id_seq' = [id_seq EXCEPT !.org = @ + Cardinality(res.created)]
    /\ UNCHANGED <<tables, req, query>>

\* session.commit() of a session that flushed a row.
CommitOrg(s) ==
    /\ sess[s].new_org # {}
    /\ organizations' = organizations \cup sess[s].new_org
    /\ sess' = [t \in Req |-> IF t = s THEN [sess[s] EXCEPT !.new_org = {}]
                              ELSE [sess[t] EXCEPT !.calls = <<>>]]
    /\ UNCHANGED <<class_codes_kd, class_codes_td, documents, design_documents,
                   tech_documents, id_seq, req, query>>

\* The session closes without a commit.
RollbackOrg(s) ==
    /\ sess[s] # IdleSess
    /\ sess' = [sess EXCEPT ![s] = IdleSess]
    /\ UNCHANGED <<tables, id_seq, req, query>>

NextOrg ==
    \/ \E s \in Req, o \in OrgCodes, k \in BOOLEAN : CallOrg(s, o, k)
    \/ \E s \in Req : CommitOrg(s)
    \/ \E s \in Req : RollbackOrg(s)

SpecOrg == Init /\ [][NextOrg]_vars

\* ------------------------------------------------------------------ claims
Done(r) == req[r].pc = "done"

\* The two sessions ran at the same time.
Concurrent(r, q) == r # q /\ req[q].base_id \in req[r].conc

\* The session reached the point where its number and designation are set.
Numbered(r) == req[r].designation # <<>>

\* Nothing the session added is in the committed tables.
NothingApplied(r) ==
    /\ \A d \in documents : d.id # req[r].base_id
    /\ \A d \in design_documents \cup tech_documents : d.id # req[r].base_id

\* The smallest strictly positive integer that is not in nums.
LowestFree(nums) ==
    CHOOSE n \in 1..(Cardinality(nums) + 1) :
        n \notin nums /\ \A m \in 1..(n - 1) : m \in nums

PartitionKey(d) == <<d.org_id, d.class_code_id, d.number>>

\* C1: no two committed documents of the same kind share
\* (org_id, class_code_id, number).
C1_UniqueNumberInPartition ==
    /\ \A d, e \in design_documents : d.id # e.id => PartitionKey(d) # PartitionKey(e)
    /\ \A d, e \in tech_documents : d.id # e.id => PartitionKey(d) # PartitionKey(e)

\* C2: two concurrent registrations with the same organization code and
\* class code and no manual number both complete, with two distinct numbers
\* and two distinct designations.
C2_ConcurrentAutoBothComplete ==
    \A r, q \in Req :
        ( /\ Concurrent(r, q) /\ Done(r) /\ Done(q)
          /\ Numbered(r) /\ Numbered(q)
          /\ req[r].doc_type = req[q].doc_type
          /\ req[r].org_code = req[q].org_code
          /\ req[r].class_code = req[q].class_code
          /\ req[r].reg_number = <<>> /\ req[q].reg_number = <<>> )
        => /\ req[r].status = 303 /\ req[q].status = 303
           /\ req[r].number # req[q].number
           /\ req[r].designation # req[q].designation

\* C3: a registration with no manual number stores the smallest strictly
\* positive integer that is not used in its partition.
C3_AutoNumberIsLowestFree ==
    [][\A r \in Req :
          ( /\ req[r].pc = "commit" /\ req'[r].pc = "done" /\ req'[r].status = 303
            /\ req[r].designation_method = "impersonal"
            /\ req[r].reg_number = <<>> )
          => req[r].number =
                LowestFree(Used(KindTable(req[r].doc_type), req[r].org_id,
                                req[r].class_code_id))]_vars

\* C4: get_next_prni and get_next_prn return the smallest integer n >= 1
\* that no document of the partition has as its number.
C4_NextIsLowestFree ==
    query.op # "none" =>
        LET table == IF query.op = "get_next_prni" THEN design_documents
                     ELSE tech_documents
            nums == {d.number : d \in {e \in table : /\ e.org_id = query.org_id
                                                     /\ e.class_code_id = query.class_code_id}}
        IN /\ query.result >= 1
           /\ query.result \notin nums
           /\ \A m \in 1..(query.result - 1) : m \in nums

\* C4 witness: get_next_prni on a partition holding 1, 2 and 4 returned 3.
C4_Witness ==
    /\ query.op = "get_next_prni"
    /\ {d.number : d \in {e \in design_documents : /\ e.org_id = query.org_id
                                                   /\ e.class_code_id = query.class_code_id}}
         = {1, 2, 4}
    /\ query.result = 3

\* C5: a registration whose manual number is used in its partition fails
\* with a client error and creates nothing.
C5_ManualDuplicateRejected ==
    [][\A r \in Req :
          ( /\ req[r].pc = "commit" /\ req'[r].pc = "done"
            /\ req[r].designation_method = "impersonal"
            /\ req[r].reg_number # <<>>
            /\ req[r].number \in Used(KindTable(req[r].doc_type), req[r].org_id,
                                      req[r].class_code_id) )
          => /\ req'[r].status = 400
             /\ UNCHANGED tables]_vars

\* C6: a registration whose manual number is free in its partition succeeds
\* and stores that number, and get_next_prni / get_next_prn never return the
\* number of a document that exists.
C6_ManualFreeSucceeds ==
    [][/\ \A r \in Req :
             ( /\ req[r].pc = "commit" /\ req'[r].pc = "done"
               /\ req[r].designation_method = "impersonal"
               /\ req[r].reg_number # <<>>
               /\ req[r].number \notin Used(KindTable(req[r].doc_type), req[r].org_id,
                                            req[r].class_code_id) )
             => /\ req'[r].status = 303
                /\ \E d \in design_documents' \cup tech_documents' :
                      d.id = req[r].base_id /\ d.number = req[r].number
       /\ \A d \in design_documents' :
             get_next_prni(design_documents', d.org_id, d.class_code_id) # d.number
       /\ \A d \in tech_documents' :
             get_next_prn(tech_documents', d.org_id, d.class_code_id) # d.number]_vars

\* C7: every committed base document of type DD or TD has its kind's row
\* with the same id, and every DesignDocument / TechDocument row has its
\* base document.
C7_BaseAndKindRowTogether ==
    /\ \A b \in documents :
          /\ b.type = "DD" => \E d \in design_documents : d.id = b.id
          /\ b.type = "TD" => \E d \in tech_documents : d.id = b.id
    /\ \A d \in design_documents : \E b \in documents : b.id = d.id /\ b.type = "DD"
    /\ \A d \in tech_documents : \E b \in documents : b.id = d.id /\ b.type = "TD"

\* C8: of two concurrent registrations that computed the same number in the
\* same partition, the one that loses is answered with a client error and
\* nothing of it is applied.
C8_LoserGetsClientError ==
    \A r, q \in Req :
        ( /\ Concurrent(r, q) /\ Done(r) /\ Done(q)
          /\ Numbered(r) /\ Numbered(q)
          /\ req[r].doc_type = req[q].doc_type
          /\ req[r].org_id = req[q].org_id
          /\ req[r].class_code_id = req[q].class_code_id
          /\ req[r].number = req[q].number
          /\ req[q].status = 303 )
        => /\ req[r].status = 400
           /\ NothingApplied(r)

\* C9: two calls of get_or_create_org_id in sequence in one session with the
\* same code and mode, no other session committing between them, return the
\* same id, and at most one of them creates a row.
C9_ResolveTwiceSameId ==
    \A s \in Req :
        ( /\ Len(sess[s].calls) = 2
          /\ sess[s].calls[1].org_code = sess[s].calls[2].org_code
          /\ sess[s].calls[1].is_okpo = sess[s].calls[2].is_okpo )
        => /\ sess[s].calls[1].id = sess[s].calls[2].id
           /\ ~(sess[s].calls[1].created /\ sess[s].calls[2].created)

\* C9 witness: a session resolved the same 8-digit code twice in OKPO mode,
\* the first call creating the row.
C9_Witness ==
    \E s \in Req :
        /\ Len(sess[s].calls) = 2
        /\ sess[s].calls[1].org_code = ORG_DIGITS /\ sess[s].calls[2].org_code = ORG_DIGITS
        /\ sess[s].calls[1].is_okpo /\ sess[s].calls[2].is_okpo
        /\ sess[s].calls[1].created

\* C10: at most one committed Organization row carries a value in its
\* namespace column (code, num_code or num_code_okpo).
C10_OneRowPerOrgCode ==
    \A o, p \in organizations :
        o.id # p.id =>
            /\ o.code = {} \/ o.code # p.code
            /\ o.num_code = {} \/ o.num_code # p.num_code
            /\ o.num_code_okpo = {} \/ o.num_code_okpo # p.num_code_okpo

\* C11: a resolver whose insert of a new row loses the race for a unique
\* value against a concurrent request goes on with the id of the row that
\* won, instead of failing the request.
C11_LostInsertRetriedAsLookup ==
    [][\A r \in Req :
          LET winner == ClassLookup(ClassTable(req[r].doc_type), req[r].class_code)
          IN ( /\ req[r].pc = "class_flush" /\ req'[r].pc # "class_flush"
               /\ winner # {} )
             => /\ req'[r].pc = "number"
                /\ req'[r].class_code_id = First(winner).id]_vars

\* The call of get_or_create_org_id that session s made in this step and
\* that returned an id: its record, or none.
ReturnedCall(s) ==
    IF sess'[s].calls # <<>> /\ sess'[s].calls # sess[s].calls
    THEN {sess'[s].calls[Len(sess'[s].calls)]}
    ELSE {}

\* C12: get_or_create_org_id never returns an id for an 8-digit value in
\* one numeric mode while a row the session sees stores that value in the
\* other mode (OKPO against plain numeric code, and the reverse).
C12_NamespaceConflictRejected ==
    [][\A s \in Req : \A call \in ReturnedCall(s) :
          LET seen == organizations \cup sess[s].new_org
              value == {DigitsToInt(call.org_code)}
          IN Len(call.org_code) = 8 =>
                IF call.is_okpo
                THEN ~\E o \in seen : o.num_code = value
                ELSE ~\E o \in seen : o.code_okpo /\ o.num_code_okpo = value]_vars

\* The rows of Organization, committed or flushed by a session.
AllOrganizations == organizations \cup UNION {sess[s].new_org : s \in Req}

\* C13: no value is the num_code of a committed Organization row and the
\* num_code_okpo of a committed Organization row.
C13_NumericNamespacesDisjoint ==
    \A o, p \in organizations :
        o.num_code = {} \/ o.num_code # p.num_code_okpo

\* C14: every Organization row has exactly one of code, num_code and
\* num_code_okpo populated, code_okpo is true exactly when it is
\* num_code_okpo, and the row a call created carries the call's value in
\* the column of the call's mode.
C14_OneNamespaceColumnPerRow ==
    /\ \A o \in AllOrganizations :
          /\ Cardinality(o.code) + Cardinality(o.num_code)
                + Cardinality(o.num_code_okpo) = 1
          /\ o.code_okpo <=> o.num_code_okpo # {}
    /\ \A s \in Req : \A i \in 1..Len(sess[s].calls) :
          LET call == sess[s].calls[i]
          IN call.created =>
                \E o \in AllOrganizations :
                   /\ o.id = call.id
                   /\ IF Len(call.org_code) = 4
                      THEN o.code = {call.org_code}
                      ELSE IF call.is_okpo
                      THEN o.num_code_okpo = {DigitsToInt(call.org_code)}
                      ELSE o.num_code = {DigitsToInt(call.org_code)}

\* C14 witness: committed rows of the three kinds, one with a 4-letter
\* code, one with a plain numeric code and one with an OKPO code.
C14_Witness ==
    /\ \E o \in organizations : o.code = {ORG_LETTERS}
    /\ \E o \in organizations : o.num_code = {DigitsToInt(ORG_DIGITS)}
    /\ \E o \in organizations : o.num_code_okpo = {DigitsToInt(ORG_DIGITS)}

\* C15: no two committed documents, of the same kind or of different kinds,
\* have the same designation.
C15_DesignationGloballyUnique ==
    /\ \A d, e \in design_documents : d.id # e.id => d.designation # e.designation
    /\ \A d, e \in tech_documents : d.id # e.id => d.designation # e.designation
    /\ \A d \in design_documents : \A e \in tech_documents :
          d.designation # e.designation

\* C16: a DesignDocument or TechDocument row keeps its number and its
\* designation for as long as it exists.
C16_NumberAndDesignationImmutable ==
    [][/\ \A d \in design_documents : \A e \in design_documents' :
             d.id = e.id => d.number = e.number /\ d.designation = e.designation
       /\ \A d \in tech_documents : \A e \in tech_documents' :
             d.id = e.id => d.number = e.number /\ d.designation = e.designation]_vars

\* C17: the number of every committed document is a positive integer.
C17_NumbersPositive ==
    /\ \A d \in design_documents : d.number >= 1
    /\ \A d \in tech_documents : d.number >= 1

\* C18: a registration rejected for its organization code, its class code
\* or its registration number leaves the committed tables as they were,
\* and none of the rows it flushed (base document, Organization row,
\* class-code row) is committed.
C18_RejectedLeavesStoreUnchanged ==
    [][\A r \in Req :
          ( /\ req[r].pc \in {"org", "class", "number"}
            /\ req'[r].pc = "done" /\ req'[r].status = 400 )
          => /\ UNCHANGED tables
             /\ \A d \in documents' \cup design_documents' \cup tech_documents' :
                   d.id # req[r].base_id
             /\ req[r].new_org \cap organizations' = {}
             /\ req[r].new_class \cap (IF req[r].doc_type = "DD" THEN class_codes_kd'
                                       ELSE class_codes_td') = {}]_vars

\* C18 witness: a request that flushed a new Organization row was rejected
\* afterwards, and neither that row nor its base document is committed.
C18_Witness ==
    \E r \in Req :
        /\ Done(r) /\ req[r].status = 400
        /\ req[r].org_id # 0
        /\ \A o \in organizations : o.id # req[r].org_id
        /\ NothingApplied(r)

\* ------------------------------------------------- the designation, built
\* What the form's doc_kind_code field and the number are drawn from.
KindCodes == {<<>>, <<"CYR_A", "CYR_B">>}
DesignationNumbers == {1, 7, 42, 100, 999, 1000, 1234}

\* The statement designation = f"{org_code}.{class_code}.{number:03d}" of
\* create_document_record, in the DD branch and in the TD branch, for a form
\* that carries doc_kind_code: no statement of the handler reads that field.
BuildDesignation(doc_type, org_code, class_code, number, doc_kind_code) ==
    /\ query' = [op |-> "designation", doc_type |-> doc_type, org_code |-> org_code,
                 class_code |-> class_code, number |-> number,
                 doc_kind_code |-> doc_kind_code,
                 result |-> Designation(org_code, class_code, number)]
    /\ UNCHANGED <<tables, id_seq, req, sess>>

NextDesignation ==
    \E t \in {"DD", "TD"}, o \in {ORG_LETTERS, ORG_DIGITS}, c \in ClassCodes,
       n \in DesignationNumbers, k \in KindCodes : BuildDesignation(t, o, c, n, k)

SpecDesignation == Init /\ [][NextDesignation]_vars

\* The number of decimal digits of n, 0 <= n < 10000.
DecimalWidth(n) == IF n < 10 THEN 1 ELSE IF n < 100 THEN 2 ELSE IF n < 1000 THEN 3 ELSE 4

\* s is prefix followed by "." and the decimal digits of number, with
\* leading zeros up to three digits and in full from 1000 on, followed by
\* suffix.
IsDesignation(s, prefix, number, suffix) ==
    LET width == IF DecimalWidth(number) < 3 THEN 3 ELSE DecimalWidth(number)
        from == Len(prefix) + 2
    IN /\ Len(s) = Len(prefix) + 1 + width + Len(suffix)
       /\ SubSeq(s, 1, Len(prefix)) = prefix
       /\ s[Len(prefix) + 1] = "."
       /\ AllDigits(SubSeq(s, from, from + width - 1))
       /\ DigitsToInt(SubSeq(s, from, from + width - 1)) = number
       /\ SubSeq(s, from + width, Len(s)) = suffix

\* C19: the designation is "<org code>.<class code>.<number>", the number
\* zero-padded to three digits and written in full from 1000 on, followed
\* for a DD by the document-kind code, with no separator.
C19_DesignationFormat ==
    query.op = "designation" =>
        IsDesignation(query.result,
                      query.org_code \o <<".">> \o query.class_code,
                      query.number,
                      IF query.doc_type = "DD" THEN query.doc_kind_code ELSE <<>>)

\* C20: the calls of get_or_create_class_id with the same code and kind
\* whose request is running or has committed returned the same id, and
\* each of the two class-code tables holds at most one row per code.
C20_OneClassRowPerCode ==
    /\ \A r, q \in Req :
          ( /\ req[r].class_code_id # 0 /\ req[q].class_code_id # 0
            /\ req[r].status \in {0, 303} /\ req[q].status \in {0, 303}
            /\ req[r].doc_type = req[q].doc_type
            /\ req[r].class_code = req[q].class_code )
          => req[r].class_code_id = req[q].class_code_id
    /\ \A c, d \in class_codes_kd : c.id # d.id => c.code # d.code
    /\ \A c, d \in class_codes_td : c.id # d.id => c.code # d.code

\* C20 witness: two requests that ran at the same time resolved the same
\* class code of the same kind and both committed.
C20_Witness ==
    \E r, q \in Req :
        /\ Concurrent(r, q)
        /\ req[r].status = 303 /\ req[q].status = 303
        /\ req[r].class_code_id # 0
        /\ req[r].doc_type = req[q].doc_type
        /\ req[r].class_code = req[q].class_code
        /\ req[r].class_code_id = req[q].class_code_id

\* C21: a running registration with designation_method "impersonal" has
\* inserted no row (its base document, an Organization row, a class-code
\* row) before its organization code and its class code have both passed
\* validation.
C21_ValidatedBeforeAnyInsert ==
    \A r \in Req :
        ( /\ InFlight(r)
          /\ req[r].designation_method = "impersonal"
          /\ \/ req[r].base_id # 0
             \/ req[r].new_org # {}
             \/ req[r].new_class # {} )
        => req[r].pc \in {"class_flush", "number", "commit"}

\* ------------------------------- the organization resolver, called with a name
\* Largest id the organizations sequence hands out in a run of SpecOrgNamed.
MaxNamedOrgId == 2

\* What the caller's org_name is drawn from: none, a blank one, a name.
OrgNames == {<<>>, <<" ">>, <<" ", "N">>}

\* One call of get_or_create_org_id with an org_name in session s; the
\* session's record keeps its last call only.
CallOrgNamed(s, org_code, is_okpo, org_name) ==
    /\ id_seq.org <= MaxNamedOrgId
    /\ LET res == get_or_create_org_id_named(organizations \cup sess[s].new_org,
                                             id_seq.org, org_code, is_okpo, org_name)
           call == [org_code |-> org_code, is_okpo |-> is_okpo, org_name |-> org_name,
                    id |-> res.id, created |-> res.created # {}]
       IN IF res.status = 400
          THEN /\ sess' = [sess EXCEPT ![s] = IdleSess]
               /\ UNCHANGED id_seq
          ELSE /\ sess' = [sess EXCEPT ![s].new_org = @ \cup res.created,
                                       ![s].calls = <<call>>]
               /\ id_seq' = [id_seq EXCEPT !.org = @ + Cardinality(res.created)]
    /\ UNCHANGED <<tables, req, query>>

NextOrgNamed ==
    \/ \E s \in Req, o \in OrgCodes, k \in BOOLEAN, n \in OrgNames :
          CallOrgNamed(s, o, k, n)
    \/ \E s \in Req : CommitOrg(s)
    \/ \E s \in Req : RollbackOrg(s)

SpecOrgNamed == Init /\ [][NextOrgNamed]_vars

\* C22: a call of get_or_create_org_id that returns leaves every row that
\* existed as it was, inserts at most one row, a row with a new id, and
\* inserts none when it returns the id of a row that existed.
C22_ResolverNeverUpdates ==
    [][\A s \in Req : \A call \in ReturnedCall(s) :
          LET seen == organizations \cup sess[s].new_org
              inserted == sess'[s].new_org \ sess[s].new_org
          IN /\ organizations' = organizations
             /\ sess[s].new_org \subseteq sess'[s].new_org
             /\ Cardinality(inserted) <= 1
             /\ \A o \in inserted : \A p \in seen : o.id # p.id
             /\ (\E p \in seen : p.id = call.id) => inserted = {}]_vars

\* C22 witness: the last call of a session supplied a name and returned the
\* id of a row that existed, which keeps the name it had.
C22_Witness ==
    \E s \in Req :
        /\ Len(sess[s].calls) = 1
        /\ ~sess[s].calls[1].created
        /\ sess[s].calls[1].org_name = <<" ", "N">>
        /\ \E o \in organizations \cup sess[s].new_org :
              o.id = sess[s].calls[1].id /\ o.name # <<"N">>

\* ------------------------------------------------- the uniqueness checks
\* result.scalar_one_or_none() over the rows (org_id, class_code_id, number)
\* followed by "existing is None".  ok = FALSE is MultipleResultsFound,
\* which scalar_one_or_none raises when more than one row matches.
check_prni_unique(rows, org_id, kd_class_code_id, prni) ==
    LET existing == {d \in rows : /\ d.org_id = org_id
                                  /\ d.class_code_id = kd_class_code_id
                                  /\ d.number = prni}
    IN IF Cardinality(existing) > 1 THEN [ok |-> FALSE, val |-> FALSE]
       ELSE [ok |-> TRUE, val |-> existing = {}]

check_prn_unique(rows, org_id, td_class_code_id, prn) ==
    LET existing == {d \in rows : /\ d.org_id = org_id
                                  /\ d.class_code_id = td_class_code_id
                                  /\ d.number = prn}
    IN IF Cardinality(existing) > 1 THEN [ok |-> FALSE, val |-> FALSE]
       ELSE [ok |-> TRUE, val |-> existing = {}]

\* C23: in every state of the store, for every partition and candidate n,
\* check_prni_unique / check_prn_unique returns True when no document of
\* the kind in the partition has number n and False otherwise.
C23_CheckUniqueIsMembership ==
    \A o \in 1..2, c \in 1..2, n \in 0..MaxPrn :
        /\ check_prni_unique(design_documents, o, c, n)
              = [ok |-> TRUE, val |-> n \notin Used(design_documents, o, c)]
        /\ check_prn_unique(tech_documents, o, c, n)
              = [ok |-> TRUE, val |-> n \notin Used(tech_documents, o, c)]

\* ------------------------------------------------- the code checks, called
\* The characters the checked codes are made of: a digit, the Cyrillic
\* capital U+0410, the Cyrillic capital U+0401 (IO, which the range
\* U+0410..U+042F of the pattern [А-Я] does not hold) and a Latin letter.
ValidateAlphabet == {"1", "CYR_A", "CYR_IO", "a"}

OrgCodeInputs ==
    [1..4 -> ValidateAlphabet]
    \cup {[i \in 1..n |-> "CYR_A"] : n \in {0, 3, 5}}
    \cup {[i \in 1..n |-> "1"] : n \in {7, 9}}
    \cup {<<"1", "1", "1", "1">> \o tail : tail \in [1..4 -> {"1", "a"}]}

ClassCodeInputs ==
    {[i \in 1..n |-> "1"] : n \in {5, 8}}
    \cup {<<"1", "1", "1">> \o tail : tail \in [1..3 -> {"1", "a"}]}
    \cup {<<"1", "1", "1", "1">> \o tail : tail \in [1..3 -> {"1", "a"}]}

\* The checks of get_or_create_org_id on an empty table: the call is
\* accepted when it raises no HTTPException.
ValidateOrg(org_code, is_okpo) ==
    /\ query' = [op |-> "org", code |-> org_code, mode |-> is_okpo,
                 accepted |-> get_or_create_org_id(organizations, id_seq.org,
                                                   org_code, is_okpo).status # 400]
    /\ UNCHANGED <<tables, id_seq, req, sess>>

\* The checks of get_or_create_class_id.
ValidateClass(class_code, is_kd) ==
    /\ query' = [op |-> "class", code |-> class_code, mode |-> is_kd,
                 accepted |-> ~ClassCodeInvalid(class_code, is_kd)]
    /\ UNCHANGED <<tables, id_seq, req, sess>>

NextValidate ==
    \/ \E o \in OrgCodeInputs, k \in BOOLEAN : ValidateOrg(o, k)
    \/ \E c \in ClassCodeInputs, k \in BOOLEAN : ValidateClass(c, k)

SpecValidate == Init /\ [][NextValidate]_vars

\* The uppercase letters of the Cyrillic script among the characters drawn.
UpperCyrillic == {"CYR_A", "CYR_B", "CYR_V", "CYR_G", "CYR_IO"}

\* C24: an organization code is accepted in non-OKPO mode exactly when it
\* is 4 uppercase Cyrillic letters or 8 digits and in OKPO mode exactly
\* when it is 8 digits; a class code is accepted exactly when it is 6
\* digits for DD and 7 digits for TD.
C24_ChecksAcceptExactlyTheFormats ==
    /\ query.op = "org" =>
          query.accepted =
             IF query.mode
             THEN Len(query.code) = 8 /\ \A i \in 1..8 : query.code[i] \in Digits
             ELSE \/ Len(query.code) = 4 /\ \A i \in 1..4 : query.code[i] \in UpperCyrillic
                  \/ Len(query.code) = 8 /\ \A i \in 1..8 : query.code[i] \in Digits
    /\ query.op = "class" =>
          query.accepted =
             LET n == IF query.mode THEN 6 ELSE 7
             IN Len(query.code) = n /\ \A i \in 1..n : query.code[i] \in Digits

\* C25: a step that changes the TechDocument table (a TD is registered,
\* updated or deleted) changes no result of get_next_prni and of
\* check_prni_unique, and a step that changes the DesignDocument table
\* changes no result of get_next_prn and of check_prn_unique.
C25_KindsAllocateIndependently ==
    [][/\ tech_documents' # tech_documents =>
             \A o \in 1..2, c \in 1..2 :
                /\ get_next_prni(design_documents', o, c)
                      = get_next_prni(design_documents, o, c)
                /\ \A n \in 0..MaxPrn :
                      check_prni_unique(design_documents', o, c, n)
                         = check_prni_unique(design_documents, o, c, n)
       /\ design_documents' # design_documents =>
             \A o \in 1..2, c \in 1..2 :
                /\ get_next_prn(tech_documents', o, c)
                      = get_next_prn(tech_documents, o, c)
                /\ \A n \in 0..MaxPrn :
                      check_prn_unique(tech_documents', o, c, n)
                         = check_prn_unique(tech_documents, o, c, n)]_vars

\* C25 witness: a DD and a TD with equal organization id, class-code id and
\* number are both committed.
C25_Witness ==
    \E d \in design_documents : \E e \in tech_documents :
        /\ d.org_id = e.org_id
        /\ d.class_code_id = e.class_code_id
        /\ d.number = e.number

\* C26: no step deletes an Organization row or a class-code row, and after
\* every step each DesignDocument / TechDocument row references an
\* Organization row and a class-code row of its kind that exist.
C26_ReferencesExist ==
    [][/\ organizations \subseteq organizations'
       /\ class_codes_kd \subseteq class_codes_kd'
       /\ class_codes_td \subseteq class_codes_td'
       /\ \A d \in design_documents' :
             /\ \E o \in organizations' : o.id = d.org_id
             /\ \E c \in class_codes_kd' : c.id = d.class_code_id
       /\ \A d \in tech_documents' :
             /\ \E o \in organizations' : o.id = d.org_id
             /\ \E c \in class_codes_td' : c.id = d.class_code_id]_vars

\* C26 witness: a document stored through the API, with the designation
\* its caller sent, references a committed Organization row.
C26_Witness ==
    \E d \in design_documents \cup tech_documents :
        /\ d.designation = <<"X">>
        /\ \E o \in organizations : o.id = d.org_id

\* ------------------------------------------------- check_org_exists, called
\* check_org_exists with the OKPO lookup on num_code (a mutant).
check_org_exists_num_code(orgs, org_code, is_okpo) ==
    IF Len(org_code) = 0 THEN FALSE
    ELSE IF is_okpo
    THEN IF Len(org_code) # 8 \/ ~AllDigits(org_code) THEN FALSE
         ELSE \E o \in orgs : o.num_code = {DigitsToInt(org_code)}
    ELSE IF Len(org_code) = 4
    THEN IF ~AllCyrUpper(org_code) THEN FALSE
         ELSE \E o \in orgs : o.code = {org_code}
    ELSE IF Len(org_code) # 8 \/ ~AllDigits(org_code) THEN FALSE
         ELSE \E o \in orgs : o.num_code = {DigitsToInt(org_code)}

\* check_org_exists(session, org_code, is_okpo): the value of 'exists' in
\* the dict it returns.
check_org_exists(orgs, org_code, is_okpo) ==
    IF Len(org_code) = 0 THEN FALSE
    ELSE IF is_okpo
    THEN IF Len(org_code) # 8 \/ ~AllDigits(org_code) THEN FALSE
         ELSE \E o \in orgs : o.num_code_okpo = {DigitsToInt(org_code)}
    ELSE IF Len(org_code) = 4
    THEN IF ~AllCyrUpper(org_code) THEN FALSE
         ELSE \E o \in orgs : o.code = {org_code}
    ELSE IF Len(org_code) # 8 \/ ~AllDigits(org_code) THEN FALSE
         ELSE \E o \in orgs : o.num_code = {DigitsToInt(org_code)}

\* The codes check_org_exists is called with.
CheckOrgCodes ==
    {<<>>, ORG_LETTERS, ORG_DIGITS, ORG_SHORT,
     <<"CYR_A", "CYR_B", "CYR_V", "a">>,
     <<"1", "2", "3", "4", "5", "6", "7", "a">>,
     <<"8", "7", "6", "5", "4", "3", "2", "1">>}

\* A store holding any of: a row with a 4-letter code, a row with a plain
\* numeric code, a row with an OKPO code.
InitCheckOrg ==
    \E rows \in SUBSET
          {[id |-> 1, code |-> {ORG_LETTERS}, code_okpo |-> FALSE, num_code |-> {},
            num_code_okpo |-> {}, name |-> CodePlaceholder(ORG_LETTERS)],
           [id |-> 2, code |-> {}, code_okpo |-> FALSE,
            num_code |-> {DigitsToInt(ORG_DIGITS)}, num_code_okpo |-> {},
            name |-> CodePlaceholder(ORG_DIGITS)],
           [id |-> 3, code |-> {}, code_okpo |-> TRUE, num_code |-> {},
            num_code_okpo |-> {DigitsToInt(ORG_DIGITS)},
            name |-> OkpoPlaceholder(ORG_DIGITS)]} :
       /\ organizations = rows
       /\ class_codes_kd = {}
       /\ class_codes_td = {}
       /\ documents = {}
       /\ design_documents = {}
       /\ tech_documents = {}
       /\ id_seq = [doc |-> 1, org |-> 4, kd |-> 1, td |-> 1]
       /\ req = [r \in Req |-> IdleReq]
       /\ query = NoQuery
       /\ sess = [s \in Req |-> IdleSess]

\* One call: the function runs two selects at most, adds nothing to the
\* session and does not commit.
CallCheckOrg(org_code, is_okpo) ==
    /\ query' = [op |-> "check_org_exists", code |-> org_code, mode |-> is_okpo,
                 exists |-> check_org_exists(organizations, org_code, is_okpo)]
    /\ UNCHANGED <<tables, id_seq, req, sess>>

NextCheckOrg == \E o \in CheckOrgCodes, k \in BOOLEAN : CallCheckOrg(o, k)

SpecCheckOrg == InitCheckOrg /\ [][NextCheckOrg]_vars

\* C27: check_org_exists changes no table, and reports exists = true
\* exactly when the code is well formed for the mode and an Organization
\* row holds its value in the column of the mode and length (num_code_okpo
\* in OKPO mode, code for 4 letters, num_code for 8 digits).
C27_CheckOrgExistsReadOnly ==
    [][/\ UNCHANGED tables
       /\ query'.op = "check_org_exists" =>
             LET code == query'.code
                 digits == Len(code) = 8 /\ \A i \in 1..8 : code[i] \in Digits
                 letters == Len(code) = 4 /\ \A i \in 1..4 : code[i] \in CyrUpper
             IN query'.exists =
                   IF query'.mode
                   THEN /\ digits
                        /\ \E o \in organizations : o.num_code_okpo = {DigitsToInt(code)}
                   ELSE \/ letters /\ \E o \in organizations : o.code = {code}
                        \/ /\ digits
                           /\ \E o \in organizations : o.num_code = {DigitsToInt(code)}]_vars

\* C27 witness: in a store that holds the value as a plain numeric code and
\* not as an OKPO code, the OKPO lookup of the value reported exists = false.
C27_Witness ==
    /\ query.op = "check_org_exists"
    /\ query.code = ORG_DIGITS /\ query.mode
    /\ ~query.exists
    /\ \E o \in organizations : o.num_code = {DigitsToInt(ORG_DIGITS)}

\* ------------------------------------------------ registrations alone
\* The store when create_document_record is the only writer.  The form's
\* org_code may also be the 8 digits of ORG_DIGITS with the first one typed
\* as a fullwidth digit.
ORG_DIGITS_FW == <<"FW_1", "2", "3", "4", "5", "6", "7", "8">>

NextReg ==
    \/ \E r \in Req, t \in DocTypes : BeginReject(r, t)
    \/ \E r \in Req, t \in DocTypes, m \in Methods : Begin(r, t, m)
    \/ \E r \in Req, o \in OrgCodes \cup {ORG_DIGITS_FW}, c \in ClassCodes :
          ResolveOrg(r, o, c)
    \/ \E r \in Req : ResolveClass(r)
    \/ \E r \in Req : FlushClass(r)
    \/ \E r \in Req, n \in RegNumbers : AllocNumber(r, n)
    \/ \E r \in Req : Commit(r)

SpecReg == Init /\ [][NextReg]_vars

\* C28: two documents of the same kind created by create_document_record
\* have the same designation exactly when they have the same
\* (org_id, class_code_id, number).
C28_DesignationIffPartitionKey ==
    /\ \A d, e \in design_documents :
          d.id # e.id => (d.designation = e.designation <=> PartitionKey(d) = PartitionKey(e))
    /\ \A d, e \in tech_documents :
          d.id # e.id => (d.designation = e.designation <=> PartitionKey(d) = PartitionKey(e))

\* ------------------------------------------------- the two delete handlers
\* main.py delete_document, called by an administrator: 404 when no base
\* document has the id.  AsyncSession.delete is a coroutine function and the
\* handler calls it without await, three times at most: the coroutines are
\* created and never run, nothing is marked for deletion, session.commit()
\* has nothing to write, and the response is the redirect (303).
delete_document(doc_id) ==
    /\ query' = [op |-> "delete_document", doc_id |-> doc_id,
                 status |-> IF \E d \in documents : d.id = doc_id THEN 303 ELSE 404]
    /\ UNCHANGED <<tables, id_seq, req, sess>>

\* Registrations and the two delete handlers.
NextDelete ==
    \/ \E r \in Req, t \in DocTypes : BeginReject(r, t)
    \/ \E r \in Req, t \in DocTypes, m \in Methods : Begin(r, t, m)
    \/ \E r \in Req, o \in OrgCodes, c \in ClassCodes : ResolveOrg(r, o, c)
    \/ \E r \in Req : ResolveClass(r)
    \/ \E r \in Req : FlushClass(r)
    \/ \E r \in Req, n \in RegNumbers : AllocNumber(r, n)
    \/ \E r \in Req : Commit(r)
    \/ \E i \in 1..MaxDocId : api_delete_document(i)
    \/ \E i \in 1..MaxDocId : delete_document(i)

SpecDelete == Init /\ [][NextDelete]_vars

\* C29: after a delete that succeeded, by the handler of docs.py (the base
\* document is gone) or by the handler of main.py (it answered 303), no
\* base document and no DesignDocument / TechDocument row has the id.
C29_DeleteRemovesBothRows ==
    [][\A i \in 1..MaxDocId :
          LET by_api == /\ \E d \in documents : d.id = i
                        /\ \A d \in documents' : d.id # i
              by_page == /\ query' # query
                         /\ query'.op = "delete_document"
                         /\ query'.doc_id = i /\ query'.status = 303
          IN (by_api \/ by_page) =>
                \A d \in documents' \cup design_documents' \cup tech_documents' :
                   d.id # i]_vars

\* C30: get_next_prni / get_next_prn returns, and for a partition of k
\* documents its result is in 1..k+1.
C30_NextWithinCountPlusOne ==
    query.op \in {"get_next_prni", "get_next_prn"} =>
        LET table == IF query.op = "get_next_prni" THEN design_documents
                     ELSE tech_documents
            partition == {d \in table : /\ d.org_id = query.org_id
                                        /\ d.class_code_id = query.class_code_id}
        IN query.result \in 1..(Cardinality(partition) + 1)

\* C30 witness: get_next_prn on a partition whose k documents are numbered
\* 1..k returned k + 1, for the largest k drawn.
C30_Witness ==
    /\ query.op = "get_next_prn"
    /\ Used(tech_documents, query.org_id, query.class_code_id) = 1..MaxPrn
    /\ query.result = MaxPrn + 1

====
